---------------------------- MODULE Spec2Model ----------------------------
(***************************************************************************)
(* Sketchy: synchronisation of one Xcode image set with a folder of        *)
(* exported images (source/ts/index.ts, syncImageSet and findImagePath).   *)
(*                                                                         *)
(* The state is the two directories (the source pool and the image-set     *)
(* folder), the persisted Contents.json, and the locals of one call of     *)
(* syncImageSet.  A call is Start (lines 87-90), one step per element of   *)
(* contents.images (the forEach callback, lines 92-114) and Finish (lines  *)
(* 117-118).  The call is made twice in succession on the same image set,  *)
(* the source pool being left alone in between.                            *)
(***************************************************************************)
EXTENDS Integers, Sequences, FiniteSets, TLC

VARIABLES
    pool,                \* source directory: file name -> file
    folder,              \* image-set directory: file name -> file (Contents.json apart)
    manifest,            \* the images array of the persisted Contents.json
    contents,            \* syncImageSet's parsed contents.images
    result,              \* syncImageSet's ImageSetSyncResult
    needsContentsUpdate, \* syncImageSet's local flag
    pc,                  \* "idle", "loop", "done"
    idx,                 \* position of forEach in contents.images
    run,                 \* "first" or "second" call of syncImageSet
    manifest0,           \* history: Contents.json as read by Start
    folder0,             \* history: the image-set folder when the call started
    prevFolder,          \* history: the image-set folder before the last callback
    prevContents,        \* history: contents.images before the last callback
    outcomes,            \* history: the branch each callback of this call took
    found,               \* history: what findImagePath returned to each callback
    writes,              \* history: writeFileSync calls of this call
    firstOutcomes        \* history: outcomes of the first call

vars == <<pool, folder, manifest, contents, result, needsContentsUpdate, pc, idx,
          run, manifest0, folder0, prevFolder, prevContents, outcomes, found,
          writes, firstOutcomes>>

---------------------------------------------------------------------------
(* Bounds of the model. *)

MaxImages == 2        \* contents.images holds at most this many elements

---------------------------------------------------------------------------
(* Paths.  A path is a directory and a file name in it; names are flat.    *)

ImageSourcePath == "export"
\* the image-set directory, character by character
ImageSetPath == <<"I", "c", ".", "O", "n", ".", "i", "m", "a", "g", "e", "s", "e", "t">>

NoPath == [dir |-> "", name |-> ""]      \* undefined / a falsy path
IsPath(p) == p # NoPath

Join(dir, name) == [dir |-> dir, name |-> name]
Basename(p) == p.name

\* path.extname: from the last dot to the end ("" when there is no dot)
LastDot(s) == LET dots == {k \in 1..Len(s) : s[k] = "."}
              IN  IF dots = {} THEN 0 ELSE CHOOSE k \in dots : \A j \in dots : j <= k
Extname(s) == IF LastDot(s) = 0 THEN <<>> ELSE SubSeq(s, LastDot(s), Len(s))
\* path.basename(p, ext): the last component without the extension
BasenameExt(s, ext) == SubSeq(s, 1, Len(s) - Len(ext))

UpperCase == <<"A","B","C","D","E","F","G","H","I","J","K","L","M",
               "N","O","P","Q","R","S","T","U","V","W","X","Y","Z">>
LowerCase == <<"a","b","c","d","e","f","g","h","i","j","k","l","m",
               "n","o","p","q","r","s","t","u","v","w","x","y","z">>
ToLowerChar(c) == IF \E k \in 1..26 : UpperCase[k] = c
                  THEN LowerCase[CHOOSE k \in 1..26 : UpperCase[k] = c]
                  ELSE c
ReplaceDot(c) == IF c = "." THEN "-" ELSE c

RECURSIVE Concat(_)
Concat(s) == IF s = <<>> THEN "" ELSE Head(s) \o Concat(Tail(s))

\* path.basename(imageSetPath, path.extname(imageSetPath)).replace(/\./ig, "-").toLowerCase()
SetFilename ==
    LET stem == BasenameExt(ImageSetPath, Extname(ImageSetPath))
    IN  Concat([k \in 1..Len(stem) |-> ToLowerChar(ReplaceDot(stem[k]))])

---------------------------------------------------------------------------
(* Images: records of Contents.json.  filename and appearances are         *)
(* optional fields; a field that is absent is absent from the record.      *)

HasFilename(image) == "filename" \in DOMAIN image          \* image.filename !== undefined
Truthy(image) == HasFilename(image) /\ image.filename # "" \* image.filename as a condition
HasAppearances(image) == "appearances" \in DOMAIN image

SetField(image, name) ==                                   \* image.filename = name
    [f \in DOMAIN image \cup {"filename"} |->
        IF f = "filename" THEN name ELSE image[f]]

Scales == {"1x", "2x"}
DarkAppearances == <<[appearance |-> "luminosity", value |-> "dark"]>>
LightDarkAppearances == <<[appearance |-> "luminosity", value |-> "light"],
                          [appearance |-> "luminosity", value |-> "dark"]>>

WithAppearances(image, a) ==
    [f \in DOMAIN image \cup {"appearances"} |-> IF f = "appearances" THEN a ELSE image[f]]

\* every image over the given recorded names and appearance lists
ImagesOver(names, lists) ==
    LET core == [idiom : {"universal"}, scale : Scales]
        plain == core \cup {SetField(c, n) : c \in core, n \in names}
    IN  plain \cup {WithAppearances(c, a) : c \in plain, a \in lists}

\* mtime is mtimeMs counted in half milliseconds: 3 is 1.5 ms
SourceFiles == {[size |-> 1, mtime |-> 4, data |-> "new"]}
FolderFiles == {[size |-> 1, mtime |-> 3, data |-> "old"],
                [size |-> 2, mtime |-> 4, data |-> "old"],
                [size |-> 1, mtime |-> 2, data |-> "old"]}

\* syncImageSet is run on these: the files the pool may hold, the names a
\* manifest may record, the files the image-set folder may hold at first
PoolNames == {SetFilename \o ".png", SetFilename \o "-light.png", SetFilename \o "@2x.png"}
RecordedNames == {"", "old.png", SetFilename \o ".png", SetFilename \o "@2x.png"}
FolderNames == {"old.png", SetFilename \o ".png"}

Images == ImagesOver(RecordedNames, {})
Manifests == UNION {[1..n -> Images] : n \in 0..MaxImages}
Pools == UNION {[S -> SourceFiles] : S \in SUBSET PoolNames}
Folders == UNION {[S -> FolderFiles] : S \in SUBSET FolderNames}

\* findImagePath alone is run on these
LocateNames == {SetFilename \o a \o s \o ".png" :
                    a \in {"", "-dark", "-light"}, s \in {"", "@2x"}} \cup {"old.png"}
LocateImages == ImagesOver(LocateNames \cup {""}, {DarkAppearances, LightDarkAppearances})
LocatePools == UNION {[S -> SourceFiles] : S \in SUBSET LocateNames}

---------------------------------------------------------------------------
(* The file system calls. *)

Dir(p, fld) == IF p.dir = ImageSourcePath THEN pool ELSE fld

ExistsSync(p, fld) == p.name \in DOMAIN Dir(p, fld)
StatSync(p, fld) == Dir(p, fld)[p.name]

\* fs.removeSync(p), p in the image-set folder; no error when p does not exist
RemoveSync(p, fld) == [n \in DOMAIN fld \ {p.name} |-> fld[n]]

\* mutant of CopySync: preserveTimestamps left out, the copy is stamped later
CopySyncNoTimestamps(src, dst, fld) ==
    [n \in DOMAIN fld \cup {dst.name} |->
        IF n = dst.name THEN [pool[src.name] EXCEPT !.mtime = @ + 2] ELSE fld[n]]

\* fs.copySync(src, dst, {preserveTimestamps: true}), dst in the image-set folder
CopySync(src, dst, fld) ==
    [n \in DOMAIN fld \cup {dst.name} |-> IF n = dst.name THEN pool[src.name] ELSE fld[n]]

\* Math.round of a time in half milliseconds, in milliseconds
Round(t) == (t + 1) \div 2

---------------------------------------------------------------------------
(* findImagePath (lines 123-141) *)

Appearance(image) == IF ~HasAppearances(image) THEN "" ELSE "-" \o image.appearances[1].value
Scale(image) == IF image.scale = "1x" THEN "" ELSE "@" \o image.scale

\* mutant of FindImagePath: a recorded filename missing from the pool ends the search
FindImagePathShortCircuit(image) ==
    IF Truthy(image)
    THEN IF ExistsSync(Join(ImageSourcePath, image.filename), folder)
         THEN Join(ImageSourcePath, image.filename) ELSE NoPath
    ELSE IF ExistsSync(Join(ImageSourcePath,
                 SetFilename \o Appearance(image) \o Scale(image) \o ".png"), folder)
    THEN Join(ImageSourcePath, SetFilename \o Appearance(image) \o Scale(image) \o ".png")
    ELSE IF ExistsSync(Join(ImageSourcePath,
                 SetFilename \o "-light" \o Scale(image) \o ".png"), folder)
    THEN Join(ImageSourcePath, SetFilename \o "-light" \o Scale(image) \o ".png")
    ELSE NoPath

\* mutant of FindImagePath: the derived name is tried before the recorded one
FindImagePathDerivedFirst(image) ==
    IF ExistsSync(Join(ImageSourcePath,
            SetFilename \o Appearance(image) \o Scale(image) \o ".png"), folder)
    THEN Join(ImageSourcePath, SetFilename \o Appearance(image) \o Scale(image) \o ".png")
    ELSE IF Truthy(image) /\ ExistsSync(Join(ImageSourcePath, image.filename), folder)
    THEN Join(ImageSourcePath, image.filename)
    ELSE IF ExistsSync(Join(ImageSourcePath,
                 SetFilename \o "-light" \o Scale(image) \o ".png"), folder)
    THEN Join(ImageSourcePath, SetFilename \o "-light" \o Scale(image) \o ".png")
    ELSE NoPath

FindImagePath(image) ==
    IF Truthy(image) /\ ExistsSync(Join(ImageSourcePath, image.filename), folder)
    THEN Join(ImageSourcePath, image.filename)
    ELSE IF ExistsSync(Join(ImageSourcePath,
                 SetFilename \o Appearance(image) \o Scale(image) \o ".png"), folder)
    THEN Join(ImageSourcePath, SetFilename \o Appearance(image) \o Scale(image) \o ".png")
    ELSE IF ExistsSync(Join(ImageSourcePath,
                 SetFilename \o "-light" \o Scale(image) \o ".png"), folder)
    THEN Join(ImageSourcePath, SetFilename \o "-light" \o Scale(image) \o ".png")
    ELSE NoPath

---------------------------------------------------------------------------
(* syncImageSet (lines 86-119) *)

EmptyResult == [unassigned |-> FALSE, updated |-> <<>>, missing |-> <<>>, skipped |-> <<>>]

OldImagePath(image) == IF Truthy(image) THEN Join("imageset", image.filename) ELSE NoPath

\* line 103
IsReplacement(old, new) == ~IsPath(old) \/ Basename(old) # Basename(new)

\* mutant of Unmodified: the modification times are compared without Math.round
UnmodifiedExact(old, new, fld) ==
    /\ ExistsSync(old, fld)
    /\ ExistsSync(new, fld)
    /\ StatSync(new, fld).size = StatSync(old, fld).size
    /\ StatSync(new, fld).mtime = StatSync(old, fld).mtime

\* line 107: oldStat && newStat && equal size && equal rounded mtimeMs
Unmodified(old, new, fld) ==
    /\ ExistsSync(old, fld)
    /\ ExistsSync(new, fld)
    /\ StatSync(new, fld).size = StatSync(old, fld).size
    /\ Round(StatSync(new, fld).mtime) = Round(StatSync(old, fld).mtime)

\* mutant of NotFound: !image.filename in place of image.filename === undefined
NotFoundFalsy(r, image) ==
    IF ~Truthy(image)
    THEN [r EXCEPT !.unassigned = TRUE]
    ELSE [r EXCEPT !.missing = Append(@, image.filename)]

\* line 99
NotFound(r, image) ==
    IF ~HasFilename(image)
    THEN [r EXCEPT !.unassigned = TRUE]
    ELSE [r EXCEPT !.missing = Append(@, image.filename)]

\* line 99, as a tag
NotFoundTag(image) == IF ~HasFilename(image) THEN "unassigned" ELSE "missing"

\* mutant of RemoveOld: the old file is not removed
RemoveOldKeep(old, fld) == fld

\* line 104
RemoveOld(old, fld) == IF IsPath(old) THEN RemoveSync(old, fld) ELSE fld

\* mutant of PushSkipped: the return of line 109 left out, line 113 runs too
PushSkippedFallsThrough(r, name) ==
    [r EXCEPT !.skipped = Append(@, name), !.updated = Append(@, name)]

\* line 108
PushSkipped(r, name) == [r EXCEPT !.skipped = Append(@, name)]

\* mutant of PushUpdated: unshift in place of push
PushUpdatedFront(r, name) == [r EXCEPT !.updated = <<name>> \o @]

\* line 113
PushUpdated(r, name) == [r EXCEPT !.updated = Append(@, name)]

\* line 112
CopyNew(new, fld) == CopySync(new, Join("imageset", Basename(new)), fld)

\* mutant of ShouldWrite: Contents.json is written by every run
ShouldWriteAlways(needs) == TRUE

\* line 117: if (needsContentsUpdate) { fs.writeFileSync(contentsPath, ...) }
ShouldWrite(needs) == needs

Start ==
    /\ pc \in {"idle", "done"}
    /\ pc = "done" => run = "first"
    /\ run' = IF pc = "idle" THEN "first" ELSE "second"
    /\ firstOutcomes' = IF pc = "idle" THEN <<>> ELSE outcomes
    /\ contents' = manifest
    /\ result' = EmptyResult
    /\ needsContentsUpdate' = FALSE
    /\ idx' = 1
    /\ pc' = "loop"
    /\ manifest0' = manifest
    /\ folder0' = folder
    /\ prevFolder' = folder
    /\ prevContents' = manifest
    /\ outcomes' = <<>>
    /\ found' = <<>>
    /\ writes' = 0
    /\ UNCHANGED <<pool, folder, manifest>>

InLoop == pc = "loop" /\ idx <= Len(contents)

Callback(tag, new) ==
    /\ idx' = idx + 1
    /\ prevFolder' = folder
    /\ prevContents' = contents
    /\ outcomes' = Append(outcomes, tag)
    /\ found' = Append(found, new)
    /\ UNCHANGED <<pool, manifest, pc, run, manifest0, folder0, writes, firstOutcomes>>

\* lines 98-101
ImageNotFound ==
    /\ InLoop
    /\ LET image == contents[idx]
           new == FindImagePath(image)
       IN  /\ ~IsPath(new)
           /\ result' = NotFound(result, image)
           /\ Callback(NotFoundTag(image), new)
           /\ UNCHANGED <<folder, contents, needsContentsUpdate>>

\* lines 103-106, then 112-113
ImageReplaced ==
    /\ InLoop
    /\ LET image == contents[idx]
           old == OldImagePath(image)
           new == FindImagePath(image)
       IN  /\ IsPath(new)
           /\ IsReplacement(old, new)
           /\ contents' = [contents EXCEPT ![idx] = SetField(image, Basename(new))]
           /\ needsContentsUpdate' = TRUE
           /\ folder' = CopyNew(new, RemoveOld(old, folder))
           /\ result' = PushUpdated(result, Basename(new))
           /\ Callback("updated", new)

\* lines 107-110
ImageSkipped ==
    /\ InLoop
    /\ LET image == contents[idx]
           old == OldImagePath(image)
           new == FindImagePath(image)
       IN  /\ IsPath(new)
           /\ ~IsReplacement(old, new)
           /\ Unmodified(old, new, folder)
           /\ result' = PushSkipped(result, image.filename)
           /\ Callback("skipped", new)
           /\ UNCHANGED <<folder, contents, needsContentsUpdate>>

\* lines 103 and 107 both false, then 112-113
ImageCopied ==
    /\ InLoop
    /\ LET image == contents[idx]
           old == OldImagePath(image)
           new == FindImagePath(image)
       IN  /\ IsPath(new)
           /\ ~IsReplacement(old, new)
           /\ ~Unmodified(old, new, folder)
           /\ folder' = CopyNew(new, folder)
           /\ result' = PushUpdated(result, image.filename)
           /\ Callback("updated", new)
           /\ UNCHANGED <<contents, needsContentsUpdate>>

\* lines 117-118
Finish ==
    /\ pc = "loop"
    /\ idx > Len(contents)
    /\ manifest' = IF ShouldWrite(needsContentsUpdate) THEN contents ELSE manifest
    /\ writes' = IF ShouldWrite(needsContentsUpdate) THEN writes + 1 ELSE writes
    /\ pc' = "done"
    /\ UNCHANGED <<pool, folder, contents, result, needsContentsUpdate, idx, run,
                   manifest0, folder0, prevFolder, prevContents, outcomes, found,
                   firstOutcomes>>

Init ==
    /\ pool \in Pools
    /\ folder \in Folders
    /\ manifest \in Manifests
    /\ contents = <<>>
    /\ result = EmptyResult
    /\ needsContentsUpdate = FALSE
    /\ pc = "idle"
    /\ idx = 1
    /\ run = "first"
    /\ manifest0 = manifest
    /\ folder0 = folder
    /\ prevFolder = folder
    /\ prevContents = <<>>
    /\ outcomes = <<>>
    /\ found = <<>>
    /\ writes = 0
    /\ firstOutcomes = <<>>

\* one call of findImagePath (lines 123-141) on contents.images[1]
Locate ==
    /\ pc = "locate"
    /\ found' = Append(found, FindImagePath(contents[1]))
    /\ pc' = "located"
    /\ UNCHANGED <<pool, folder, manifest, contents, result, needsContentsUpdate, idx,
                   run, manifest0, folder0, prevFolder, prevContents, outcomes, writes,
                   firstOutcomes>>

InitLocate ==
    /\ pool \in LocatePools
    /\ folder = <<>>
    /\ manifest \in [1..1 -> LocateImages]
    /\ contents = manifest
    /\ result = EmptyResult
    /\ needsContentsUpdate = FALSE
    /\ pc = "locate"
    /\ idx = 1
    /\ run = "first"
    /\ manifest0 = manifest
    /\ folder0 = folder
    /\ prevFolder = folder
    /\ prevContents = manifest
    /\ outcomes = <<>>
    /\ found = <<>>
    /\ writes = 0
    /\ firstOutcomes = <<>>

Next ==
    \/ Start
    \/ ImageNotFound
    \/ ImageReplaced
    \/ ImageSkipped
    \/ ImageCopied
    \/ Finish

Spec == Init /\ [][Next]_vars

SpecLocate == InitLocate /\ [][Locate]_vars

---------------------------------------------------------------------------
(* Vocabulary of the properties. *)

Done == pc = "done"
Last == Len(outcomes)          \* the element the last callback processed
Acted == pc \in {"loop", "done"} /\ Last >= 1

\* the filename field as a value: <<>> when the field is absent
FilenameOf(image) == IF HasFilename(image) THEN <<image.filename>> ELSE <<>>
\* an image without its filename field
Slot(image) == [f \in DOMAIN image \ {"filename"} |-> image[f]]

\* the elements of names at the positions where tags holds tag, in order
Collect(tags, names, tag) ==
    LET F[k \in 0..Len(tags)] ==
            IF k = 0 THEN <<>>
            ELSE IF tags[k] = tag THEN Append(F[k - 1], names[k]) ELSE F[k - 1]
    IN  F[Len(tags)]
Count(tags, tag) == Cardinality({k \in 1..Len(tags) : tags[k] = tag})

\* the filename each processed element holds now ("" when it has none)
NamesNow == [k \in 1..Len(outcomes) |->
                IF HasFilename(contents[k]) THEN contents[k].filename ELSE ""]

---------------------------------------------------------------------------
\* C1: when syncImageSet has run twice in succession on the same image set,
\* the source pool unchanged in between, the second run reports no updated
\* entry, every entry the first run updated is skipped by the second, and
\* the second run does not write Contents.json.
C1_Idempotent ==
    (Done /\ run = "second") =>
        /\ result.updated = <<>>
        /\ \A k \in 1..Len(firstOutcomes) :
               firstOutcomes[k] = "updated" => outcomes[k] = "skipped"
        /\ writes = 0
        /\ manifest = manifest0

C1_Witness ==
    /\ Done /\ run = "second"
    /\ Len(firstOutcomes) = 2
    /\ firstOutcomes[1] = "updated" /\ firstOutcomes[2] = "updated"
    /\ manifest0[1].filename = manifest0[2].filename

\* C2: Contents.json is written by a run if and only if some entry's
\* filename field ends the run with another value than the one read at the
\* start of the run.
C2_WriteIffFilenameChanged ==
    Done =>
        /\ writes \in {0, 1}
        /\ writes = 1 <=>
               \E k \in 1..Len(manifest0) : FilenameOf(contents[k]) # FilenameOf(manifest0[k])
        /\ manifest = IF writes = 1 THEN contents ELSE manifest0

C2_Witness ==
    /\ Done /\ writes = 0
    /\ \E k \in 1..Len(outcomes) : outcomes[k] = "updated"

\* C3: every processed entry has exactly one of the outcomes unassigned,
\* missing, updated, skipped: the three lists grow by one entry for exactly
\* the entries of their kind, the flag is set exactly when some entry was
\* unassigned, and after a run the four counts add up to the number of entries.
C3_OneOutcomeEach ==
    pc \in {"idle", "loop", "done"} =>
        /\ Len(outcomes) = idx - 1
        /\ Len(result.missing) = Count(outcomes, "missing")
        /\ Len(result.updated) = Count(outcomes, "updated")
        /\ Len(result.skipped) = Count(outcomes, "skipped")
        /\ result.unassigned = (Count(outcomes, "unassigned") > 0)
        /\ Count(outcomes, "unassigned") + Len(result.missing)
             + Len(result.updated) + Len(result.skipped) = idx - 1
        /\ Done => idx - 1 = Len(manifest0)

C3_Witness ==
    /\ Done
    /\ Len(manifest0) = 2
    /\ outcomes[1] = "skipped" /\ outcomes[2] = "unassigned"

\* C4: findImagePath returns the first existing candidate of: the recorded
\* filename (when one is set), <base><appearance><scale>.png,
\* <base>-light<scale>.png; and nothing when none exists.  An entry whose
\* recorded filename is not in the pool gets what the same entry without a
\* filename gets.
C4_LocatePriority ==
    \A k \in 1..Len(found) :
        LET image == manifest0[k]
            app == IF "appearances" \in DOMAIN image
                   THEN "-" \o image.appearances[1].value ELSE ""
            scl == IF image.scale = "1x" THEN "" ELSE "@" \o image.scale
            first == "ic-on" \o app \o scl \o ".png"
            second == "ic-on-light" \o scl \o ".png"
            recorded == "filename" \in DOMAIN image /\ image.filename \in DOMAIN pool
        IN  /\ found[k] =
                  IF recorded THEN [dir |-> ImageSourcePath, name |-> image.filename]
                  ELSE IF first \in DOMAIN pool THEN [dir |-> ImageSourcePath, name |-> first]
                  ELSE IF second \in DOMAIN pool THEN [dir |-> ImageSourcePath, name |-> second]
                  ELSE NoPath
            /\ ~recorded => found[k] = FindImagePath(Slot(image))

C4_Witness ==
    /\ pc = "located"
    /\ "filename" \in DOMAIN manifest0[1]
    /\ manifest0[1].filename \notin DOMAIN pool
    /\ "appearances" \in DOMAIN manifest0[1]
    /\ manifest0[1].scale = "2x"
    /\ found[1] = [dir |-> ImageSourcePath, name |-> "ic-on-light@2x.png"]

\* C5: an entry classified missing keeps its file and its filename: after
\* the run the file its filename names is still in the image-set folder if
\* it was there before the run, and its filename field is unchanged.
C5_MissingLeftUntouched ==
    Done =>
        \A k \in 1..Len(outcomes) :
            outcomes[k] = "missing" =>
                /\ FilenameOf(manifest[k]) = FilenameOf(manifest0[k])
                /\ manifest0[k].filename \in DOMAIN folder0
                       => manifest0[k].filename \in DOMAIN folder

\* C6: an entry with no candidate is no error: the run goes on to the next
\* entry and completes; the entry sets the unassigned flag exactly when it
\* has no recorded filename, and otherwise its filename is appended to missing.
C6_NotFoundClassified ==
    LET none == [k \in 1..Len(found) |->
                    IF IsPath(found[k]) THEN "found"
                    ELSE IF "filename" \in DOMAIN manifest0[k] THEN "named" ELSE "unnamed"]
    IN  pc \in {"loop", "done"} =>
            /\ result.unassigned = (Count(none, "unnamed") > 0)
            /\ result.missing = Collect(none, NamesNow, "named")
            /\ Len(found) = idx - 1
            /\ (Done /\ run = "second") \/ ENABLED Next

C6_Witness ==
    /\ Done
    /\ Len(found) = 2
    /\ ~IsPath(found[1]) /\ ~IsPath(found[2])
    /\ result.unassigned /\ Len(result.missing) = 1

\* C7: when the located file has the recorded filename, the destination
\* exists, and the two have the same size and the same mtime rounded to the
\* millisecond, the entry is skipped and the callback changes no file and no
\* filename, whatever the bytes of the two files.
C7_SkippedTouchesNothing ==
    Acted =>
        LET image == prevContents[Last]
            new == found[Last]
        IN  (/\ IsPath(new)
             /\ HasFilename(image)
             /\ image.filename = Basename(new)
             /\ image.filename \in DOMAIN prevFolder
             /\ prevFolder[image.filename].size = pool[new.name].size
             /\ Round(prevFolder[image.filename].mtime) = Round(pool[new.name].mtime))
            => /\ outcomes[Last] = "skipped"
               /\ result.skipped # <<>>
               /\ result.skipped[Len(result.skipped)] = image.filename
               /\ folder = prevFolder
               /\ contents = prevContents
               /\ pc = "loop" => manifest = manifest0 /\ writes = 0

C7_Witness ==
    /\ Acted /\ run = "first"
    /\ outcomes[Last] = "skipped"
    /\ prevFolder[prevContents[Last].filename].data # pool[found[Last].name].data
    /\ prevFolder[prevContents[Last].filename].mtime # pool[found[Last].name].mtime

\* C8: a run keeps the order: the written manifest has the entries of the
\* manifest read, in their places, and each report list holds the filenames
\* of its entries in manifest order.
C8_OrderPreserved ==
    Done =>
        /\ Len(manifest) = Len(manifest0)
        /\ \A k \in 1..Len(manifest0) : Slot(manifest[k]) = Slot(manifest0[k])
        /\ result.updated = Collect(outcomes, NamesNow, "updated")
        /\ result.missing = Collect(outcomes, NamesNow, "missing")
        /\ result.skipped = Collect(outcomes, NamesNow, "skipped")

C8_Witness ==
    /\ Done /\ writes = 1
    /\ Len(result.updated) = 2
    /\ result.updated[1] # result.updated[2]
    /\ Slot(manifest[1]) # Slot(manifest[2])

\* C9: a callback that located a file for an entry with no recorded filename,
\* or with another recorded filename than the located file's base name,
\* leaves the old recorded file (if any) out of the image-set folder, the
\* entry's filename equal to the located base name, a copy of the located
\* file (modification time included) in the folder under that name, and the
\* entry reported updated under the new filename.
C9_Replacement ==
    Acted =>
        LET image == prevContents[Last]
            new == found[Last]
        IN  (IsPath(new) /\ (~HasFilename(image) \/ image.filename # Basename(new)))
            => /\ HasFilename(image) => image.filename \notin DOMAIN folder
               /\ FilenameOf(contents[Last]) = <<Basename(new)>>
               /\ Basename(new) \in DOMAIN folder
               /\ folder[Basename(new)] = pool[new.name]
               /\ outcomes[Last] = "updated"
               /\ result.updated # <<>>
               /\ result.updated[Len(result.updated)] = Basename(new)

C9_Witness ==
    /\ Acted
    /\ IsPath(found[Last])
    /\ HasFilename(prevContents[Last])
    /\ prevContents[Last].filename # Basename(found[Last])
    /\ prevContents[Last].filename \in DOMAIN prevFolder
    /\ Basename(found[Last]) \notin DOMAIN prevFolder

\* C10, as claimed: after a run, the filename Contents.json records for an
\* updated or skipped entry names a file of the image-set folder whose size
\* and modification time are those of the pool's file of that name.
C10_ConvergedExact ==
    Done =>
        \A k \in 1..Len(outcomes) :
            outcomes[k] \in {"updated", "skipped"} =>
                /\ HasFilename(manifest[k])
                /\ manifest[k].filename \in DOMAIN folder
                /\ manifest[k].filename \in DOMAIN pool
                /\ folder[manifest[k].filename].size = pool[manifest[k].filename].size
                /\ folder[manifest[k].filename].mtime = pool[manifest[k].filename].mtime

\* C10, amended: after a run, the filename Contents.json records for an
\* updated or skipped entry names a file of the image-set folder whose size
\* and modification time rounded to the millisecond are those of the pool's
\* file of that name; no delete of the run removed such a file.
C10_Converged ==
    Done =>
        \A k \in 1..Len(outcomes) :
            outcomes[k] \in {"updated", "skipped"} =>
                /\ HasFilename(manifest[k])
                /\ manifest[k].filename \in DOMAIN folder
                /\ manifest[k].filename \in DOMAIN pool
                /\ folder[manifest[k].filename].size = pool[manifest[k].filename].size
                /\ Round(folder[manifest[k].filename].mtime)
                       = Round(pool[manifest[k].filename].mtime)

C10_Witness ==
    /\ Done
    /\ Len(outcomes) = 2
    /\ outcomes[1] \in {"updated", "skipped"}
    /\ outcomes[2] = "updated"
    /\ HasFilename(manifest0[2])
    /\ manifest0[2].filename \in DOMAIN folder0
    /\ manifest0[2].filename \notin DOMAIN folder

=============================================================================
